---- MODULE Spec2Model ----
(***************************************************************************)
(* Model of tables-cli: the Table container (src/src/table.rs) and the     *)
(* format detection / parsing pipeline (src/src/table_parser.rs).          *)
(*                                                                         *)
(* A Rust String is modelled as a sequence of one-character strings, so    *)
(* that lines(), split(), trim(), the two regular expressions and          *)
(* parse::<f64>() are computed character by character.                     *)
(***************************************************************************)
EXTENDS Integers, Sequences, FiniteSets, TLC

VARIABLES
    data,        \* Table.data: Vec<Vec<String>>
    header_map,  \* Table.header_map: HashMap<String, usize>, a set of <<name, index>>
    built,       \* the constructor call that made the table, and what it returned
    res,         \* the last method call on the table, and what it returned
    text,        \* the raw text handed to deduct_table_type / parse_table
    detected,    \* what deduct_table_type returned for text
    parsed,      \* the last parse_table call on text, and what it returned
    lines,       \* the rows handed to first_line_is_header
    guess        \* what first_line_is_header returned for lines

vars == <<data, header_map, built, res, text, detected, parsed, lines, guess>>

-----------------------------------------------------------------------------
(* Bounds of the model *)

MaxHeaderLen == 2   \* longest header handed to with_header_and_data
MaxRowLen == 2      \* longest row handed to a constructor or to add_row
MaxInitRows == 2    \* most rows handed to a constructor
MaxRows == 2        \* add_row is not called once the table holds this many rows

-----------------------------------------------------------------------------
(* Option<T> and Result<T, TableError> *)

None == [some |-> FALSE]
Some(v) == [some |-> TRUE, val |-> v]

EmptyHeader == [kind |-> "EmptyHeader"]
DuplicateColumn(name) == [kind |-> "DuplicateColumn", name |-> name]
RowLengthMismatch(i, rl, hl) ==
    [kind |-> "RowLengthMismatch", row_index |-> i, row_len |-> rl, header_len |-> hl]
InvalidTableSize == [kind |-> "InvalidTableSize"]

Ok(v) == [ok |-> TRUE, val |-> v]
Err(e) == [ok |-> FALSE, err |-> e]

-----------------------------------------------------------------------------
(* HashMap<String, usize> as a set of <<key, value>> pairs, one per key *)

MapKeys(map) == {kv[1] : kv \in map}
MapGet(map, key) ==
    IF key \in MapKeys(map)
    THEN Some((CHOOSE kv \in map : kv[1] = key)[2])
    ELSE None
MapInsert(map, key, value) == {kv \in map : kv[1] # key} \cup {<<key, value>>}
MapLen(map) == Cardinality(map)

(* Vec::get with a 0-based index *)
VecGet(v, i) == IF i + 1 \in 1..Len(v) THEN Some(v[i + 1]) ELSE None

Max(a, b) == IF a >= b THEN a ELSE b

-----------------------------------------------------------------------------
(* Table *)

MkTable(d, hm) == [data |-> d, header_map |-> hm]

new == MkTable(<<>>, {})

\* the header loop: insert each name, stop at the first one already present
RECURSIVE HeaderScan(_, _, _)
HeaderScan(header, i, map) ==
    IF i > Len(header) THEN Ok(map)
    ELSE IF MapGet(map, header[i]).some
         THEN Err(DuplicateColumn(header[i]))
         ELSE HeaderScan(header, i + 1, MapInsert(map, header[i], i - 1))

\* the row loop: stop at the first row whose length differs from the header's
RECURSIVE RowScan(_, _, _)
RowScan(header, d, r) ==
    IF r > Len(d) THEN Ok(TRUE)
    ELSE IF Len(d[r]) # Len(header)
         THEN Err(RowLengthMismatch(r - 1, Len(d[r]), Len(header)))
         ELSE RowScan(header, d, r + 1)

with_header_and_data_rows_first(header, d) ==
    IF Len(header) = 0 THEN Err(EmptyHeader)
    ELSE IF ~RowScan(header, d, 1).ok THEN RowScan(header, d, 1)
    ELSE IF ~HeaderScan(header, 1, {}).ok THEN HeaderScan(header, 1, {})
    ELSE Ok(MkTable(d, HeaderScan(header, 1, {}).val))

with_header_and_data(header, d) ==
    IF Len(header) = 0 THEN Err(EmptyHeader)
    ELSE IF ~HeaderScan(header, 1, {}).ok THEN HeaderScan(header, 1, {})
    ELSE IF ~RowScan(header, d, 1).ok THEN RowScan(header, d, 1)
    ELSE Ok(MkTable(d, HeaderScan(header, 1, {}).val))

with_data(d) == Ok(MkTable(d, {}))

\* add_row returns the Result and leaves the table in t
add_row_unchecked(t, row) ==
    [ret |-> Ok(TRUE), t |-> MkTable(Append(t.data, row), t.header_map)]

add_row_only_longer(t, row) ==
    IF MapLen(t.header_map) # 0 /\ MapLen(t.header_map) < Len(row)
    THEN [ret |-> Err(RowLengthMismatch(Len(t.data), Len(row), MapLen(t.header_map))),
          t |-> t]
    ELSE [ret |-> Ok(TRUE), t |-> MkTable(Append(t.data, row), t.header_map)]

add_row_push_front(t, row) ==
    IF MapLen(t.header_map) # 0 /\ MapLen(t.header_map) # Len(row)
    THEN [ret |-> Err(RowLengthMismatch(Len(t.data), Len(row), MapLen(t.header_map))),
          t |-> t]
    ELSE [ret |-> Ok(TRUE), t |-> MkTable(<<row>> \o t.data, t.header_map)]

add_row(t, row) ==
    IF MapLen(t.header_map) # 0 /\ MapLen(t.header_map) # Len(row)
    THEN [ret |-> Err(RowLengthMismatch(Len(t.data), Len(row), MapLen(t.header_map))),
          t |-> t]
    ELSE [ret |-> Ok(TRUE), t |-> MkTable(Append(t.data, row), t.header_map)]

get(t, row_index) == VecGet(t.data, row_index)

row_count(t) == Len(t.data)

column_count(t) ==
    Max(MapLen(t.header_map), IF Len(t.data) = 0 THEN 0 ELSE Len(t.data[1]))

get_value(t, row_index, column_name) ==
    LET column_index == MapGet(t.header_map, column_name)
        row == VecGet(t.data, row_index)
    IN  IF ~column_index.some THEN None
        ELSE IF ~row.some THEN None
        ELSE VecGet(row.val, column_index.val)

-----------------------------------------------------------------------------
(* Inputs of the Table operations *)

Names == {<<"a">>, <<"b">>, <<"c">>}
Cells == {<<"1">>, <<"2">>}

SeqsUpTo(S, n) == UNION {[1..k -> S] : k \in 0..n}

Headers == SeqsUpTo(Names, MaxHeaderLen)
\* rows repeat one cell, so that two rows of one length can still differ
Rows == UNION {[1..k -> {c}] : k \in 0..MaxRowLen, c \in Cells}
Datas == SeqsUpTo(Rows, MaxInitRows)

NoCall == [op |-> "none"]
Table == MkTable(data, header_map)
Exists == built.op # "none" /\ built.ret.ok

-----------------------------------------------------------------------------
(* The Table's lifecycle: one constructor call, then method calls *)

InitIdle ==
    /\ text = <<>>
    /\ detected = "none"
    /\ parsed = NoCall
    /\ lines = <<>>
    /\ guess = NoCall

Init ==
    /\ data = <<>>
    /\ header_map = {}
    /\ built = NoCall
    /\ res = NoCall
    /\ InitIdle

Construct(call, ret) ==
    /\ built' = [call EXCEPT !.ret = ret]
    /\ data' = IF ret.ok THEN ret.val.data ELSE data
    /\ header_map' = IF ret.ok THEN ret.val.header_map ELSE header_map
    /\ UNCHANGED <<res, text, detected, parsed, lines, guess>>

New ==
    /\ built = NoCall
    /\ Construct([op |-> "new", ret |-> None], Ok(new))

WithHeaderAndData ==
    /\ built = NoCall
    /\ \E header \in Headers, d \in Datas :
        Construct([op |-> "with_header_and_data", header |-> header, data |-> d,
                   ret |-> None],
                  with_header_and_data(header, d))

WithData ==
    /\ built = NoCall
    /\ \E d \in Datas :
        Construct([op |-> "with_data", data |-> d, ret |-> None], with_data(d))

AddRow ==
    /\ Exists
    /\ Len(data) < MaxRows
    /\ \E row \in Rows :
        LET r == add_row(Table, row)
        IN  /\ data' = r.t.data
            /\ header_map' = r.t.header_map
            /\ res' = [op |-> "add_row", row |-> row, ret |-> r.ret]
    /\ UNCHANGED <<built, text, detected, parsed, lines, guess>>

Get ==
    /\ Exists
    /\ \E i \in 0..Len(data) :
        res' = [op |-> "get", row_index |-> i, ret |-> get(Table, i)]
    /\ UNCHANGED <<data, header_map, built, text, detected, parsed, lines, guess>>

GetValue ==
    /\ Exists
    /\ \E i \in 0..Len(data), name \in Names :
        res' = [op |-> "get_value", row_index |-> i, column_name |-> name,
                ret |-> get_value(Table, i, name)]
    /\ UNCHANGED <<data, header_map, built, text, detected, parsed, lines, guess>>

RowCount ==
    /\ Exists
    /\ res' = [op |-> "row_count", ret |-> row_count(Table)]
    /\ UNCHANGED <<data, header_map, built, text, detected, parsed, lines, guess>>

ColumnCount ==
    /\ Exists
    /\ res' = [op |-> "column_count", ret |-> column_count(Table)]
    /\ UNCHANGED <<data, header_map, built, text, detected, parsed, lines, guess>>

Next ==
    \/ New
    \/ WithHeaderAndData
    \/ WithData
    \/ AddRow
    \/ Get
    \/ GetValue
    \/ RowCount
    \/ ColumnCount

Spec == Init /\ [][Next]_vars

-----------------------------------------------------------------------------
(* str: lines, trim, split, contains, matches *)

WhiteSpace == {" ", "\t", "\n", "\r"}

RECURSIVE trim_start(_)
trim_start(s) ==
    IF s = <<>> THEN s
    ELSE IF Head(s) \in WhiteSpace THEN trim_start(Tail(s)) ELSE s

RECURSIVE trim_end(_)
trim_end(s) ==
    IF s = <<>> THEN s
    ELSE IF s[Len(s)] \in WhiteSpace THEN trim_end(SubSeq(s, 1, Len(s) - 1)) ELSE s

trim(s) == trim_end(trim_start(s))

contains(s, c) == \E i \in 1..Len(s) : s[i] = c

matches_count(s, c) == Cardinality({i \in 1..Len(s) : s[i] = c})

\* str::split(sep): one more piece than there are separators
RECURSIVE split(_, _)
split(s, sep) ==
    IF ~contains(s, sep) THEN <<s>>
    ELSE LET k == CHOOSE i \in 1..Len(s) :
                      s[i] = sep /\ \A j \in 1..(i - 1) : s[j] # sep
         IN  <<SubSeq(s, 1, k - 1)>> \o split(SubSeq(s, k + 1, Len(s)), sep)

\* str::lines(): pieces ended by "\n" (a "\r" before it dropped too) and a last
\* piece without line ending when it is not empty
str_lines(s) ==
    LET pieces == split(s, "\n")
        n == Len(pieces)
        strip_cr(l) == IF l # <<>> /\ l[Len(l)] = "\r"
                       THEN SubSeq(l, 1, Len(l) - 1) ELSE l
        ended == [i \in 1..(n - 1) |-> strip_cr(pieces[i])]
    IN  IF pieces[n] = <<>> THEN ended ELSE Append(ended, pieces[n])

-----------------------------------------------------------------------------
(* deduct_table_type *)

\* Regex ^\+[-]+\+$
separator_regex_is_match(line) ==
    /\ Len(line) >= 3
    /\ line[1] = "+"
    /\ line[Len(line)] = "+"
    /\ \A i \in 2..(Len(line) - 1) : line[i] = "-"

\* Regex ^\|.*\|$
content_regex_is_match(line) ==
    /\ Len(line) >= 2
    /\ line[1] = "|"
    /\ line[Len(line)] = "|"
    /\ \A i \in 2..(Len(line) - 1) : line[i] # "\n"

\* index of ls[i] as enumerate() counts it
Index(i) == i - 1

is_ascii_table(ls) ==
    LET has_borders ==
            /\ separator_regex_is_match(ls[1])
            /\ separator_regex_is_match(ls[Len(ls)])
        has_row_separators ==
            \A i \in 1..Len(ls) : Index(i) % 2 = 1 => separator_regex_is_match(ls[i])
        has_valid_content ==
            \A i \in 1..Len(ls) : Index(i) % 2 = 0 => content_regex_is_match(ls[i])
    IN  has_borders /\ has_row_separators /\ has_valid_content

is_csv_commas_only(ls) ==
    LET has_commas == \A i \in 1..Len(ls) : contains(ls[i], ",")
        first_line_columns == IF Len(ls) = 0 THEN 0 ELSE matches_count(ls[1], ",") + 1
    IN  has_commas /\ first_line_columns > 1

is_csv(ls) ==
    LET has_commas == \A i \in 1..Len(ls) : contains(ls[i], ",")
        first_line_columns == IF Len(ls) = 0 THEN 0 ELSE matches_count(ls[1], ",") + 1
        consistent_columns ==
            \A i \in 1..Len(ls) : matches_count(ls[i], ",") + 1 = first_line_columns
    IN  has_commas /\ consistent_columns /\ first_line_columns > 1

\* the branch taken for fewer than 3 lines
short_table_type_last_line(ls) ==
    IF Len(ls) # 0 /\ contains(ls[Len(ls)], ",") THEN "CsvTable" ELSE "Unknown"

short_table_type(ls) ==
    IF Len(ls) # 0 /\ contains(ls[1], ",") THEN "CsvTable" ELSE "Unknown"

deduct_table_type(d) ==
    IF trim(d) = <<>> THEN "Unknown"
    ELSE LET ls == str_lines(d)
         IN  IF Len(ls) < 3 THEN short_table_type(ls)
             ELSE IF is_ascii_table(ls) THEN "AsciiTable"
             ELSE IF is_csv(ls) THEN "CsvTable"
             ELSE "Unknown"

-----------------------------------------------------------------------------
(* parse_table *)

\* a call either returns its Result or panics
Returned(r) == [panicked |-> FALSE, ret |-> r]
Panicked == [panicked |-> TRUE]

TrimAll(fields) == [j \in 1..Len(fields) |-> trim(fields[j])]

\* lines.remove(0) panics on an empty Vec
build_table(rows, first_line_is_header) ==
    IF first_line_is_header
    THEN IF Len(rows) = 0 THEN Panicked
         ELSE Returned(with_header_and_data(Head(rows), Tail(rows)))
    ELSE Returned(with_data(rows))

parse_csv_table(d, first_line_is_header) ==
    LET ls == str_lines(d)
        rows == [i \in 1..Len(ls) |-> TrimAll(split(ls[i], ","))]
    IN  build_table(rows, first_line_is_header)

\* the lines filter(index % 2 == 0) keeps
EvenLines(ls) ==
    LET RECURSIVE Pick(_)
        Pick(i) == IF i > Len(ls) THEN <<>> ELSE <<ls[i]>> \o Pick(i + 2)
    IN  Pick(1)

\* split('|').take(line.len() - 1).skip(1): on an empty line the subtraction
\* overflows: a panic with overflow checks, usize::MAX (take everything) without
ascii_fields(line) ==
    LET pieces == split(line, "|")
        n == IF Len(line) = 0 THEN Len(pieces) ELSE Len(line) - 1
        taken == SubSeq(pieces, 1, IF n < Len(pieces) THEN n ELSE Len(pieces))
    IN  TrimAll(IF taken = <<>> THEN taken ELSE Tail(taken))

parse_ascii_table(d, first_line_is_header, overflow_checks) ==
    LET ls == EvenLines(str_lines(d))
        rows == [i \in 1..Len(ls) |-> ascii_fields(ls[i])]
    IN  IF overflow_checks /\ \E i \in 1..Len(ls) : Len(ls[i]) = 0
        THEN Panicked
        ELSE build_table(rows, first_line_is_header)

parse_table(table_type, d, first_line_is_header, overflow_checks) ==
    CASE table_type = "AsciiTable" ->
             parse_ascii_table(d, first_line_is_header, overflow_checks)
      [] table_type = "CsvTable" -> parse_csv_table(d, first_line_is_header)
      [] table_type = "Unknown" -> Returned(Err(InvalidTableSize))

TableType == {"AsciiTable", "CsvTable", "Unknown"}

-----------------------------------------------------------------------------
(* Inputs of detection and parsing: texts made of whole lines *)

MaxLines == 3      \* most lines of a text of arbitrary lines
MaxBoxRows == 2    \* most content lines of a box-drawn text

AnyLines ==
    { <<"a", ",", "b">>,
      <<"c">>,
      <<" ", "a", " ", ",", " ", "b", " ">>,
      <<>>,
      <<"a", ",", "b", ",", "c">>,
      <<"a", ",", "a">>,
      <<"+", "-", "+">>,
      <<"|", "a", "|">> }

BorderLines ==
    { <<"+", "-", "-", "-", "+">>,
      <<"+", "-", "-", "-", "+", "-", "-", "-", "+">> }

ContentLines ==
    { <<"|", " ", "a", " ", "|">>,
      <<"|", " ", "a", " ", "|", " ", "b", " ", "|">>,
      <<"|", " ", "1", " ", "|", " ", "2", " ", "|">> }

RECURSIVE Join(_)
Join(ls) ==
    IF Len(ls) = 0 THEN <<>>
    ELSE IF Len(ls) = 1 THEN ls[1]
    ELSE ls[1] \o <<"\n">> \o Join(Tail(ls))

\* border, content, border, ..., border
BoxLineSeqs ==
    UNION { { ls \in [1..(2 * k + 1) -> BorderLines \cup ContentLines] :
                  \A i \in 1..(2 * k + 1) :
                      ls[i] \in (IF i % 2 = 1 THEN BorderLines ELSE ContentLines) }
            : k \in 1..MaxBoxRows }

Texts ==
    {Join(ls) : ls \in SeqsUpTo(AnyLines, MaxLines)}
    \cup {Join(ls) \o <<"\n">> : ls \in SeqsUpTo(AnyLines, MaxLines)}
    \cup {Join(ls) : ls \in BoxLineSeqs}

-----------------------------------------------------------------------------
(* Detection and parsing of one text: each function is called once on it *)

InitParse ==
    /\ text \in Texts
    /\ detected = "none"
    /\ parsed = NoCall
    /\ data = <<>>
    /\ header_map = {}
    /\ built = NoCall
    /\ res = NoCall
    /\ lines = <<>>
    /\ guess = NoCall

DeductTableType ==
    /\ detected = "none"
    /\ detected' = deduct_table_type(text)
    /\ UNCHANGED <<data, header_map, built, res, text, parsed, lines, guess>>

ParseTable ==
    /\ parsed = NoCall
    /\ \E table_type \in TableType, flag \in BOOLEAN, overflow_checks \in BOOLEAN :
        /\ table_type # "AsciiTable" => ~overflow_checks
        /\ parsed' = [op |-> "parse_table", table_type |-> table_type,
                      first_line_is_header |-> flag,
                      overflow_checks |-> overflow_checks,
                      out |-> parse_table(table_type, text, flag, overflow_checks)]
    /\ UNCHANGED <<data, header_map, built, res, text, detected, lines, guess>>

NextParse ==
    \/ DeductTableType
    \/ ParseTable

SpecParse == InitParse /\ [][NextParse]_vars

-----------------------------------------------------------------------------
(* char classes and str::parse::<f64>() *)

Digit == {"0", "1", "2", "3", "4", "5", "6", "7", "8", "9"}
UpperCase == {"A", "B", "C", "D", "E", "F", "G", "H", "I", "J", "K", "L", "M",
              "N", "O", "P", "Q", "R", "S", "T", "U", "V", "W", "X", "Y", "Z"}
LowerCase == {"a", "b", "c", "d", "e", "f", "g", "h", "i", "j", "k", "l", "m",
              "n", "o", "p", "q", "r", "s", "t", "u", "v", "w", "x", "y", "z"}

is_alphabetic(c) == c \in UpperCase \cup LowerCase
is_whitespace(c) == c \in WhiteSpace
is_uppercase(c) == c \in UpperCase

\* the letters of the special values, lower-cased
to_ascii_lowercase(c) ==
    CASE c = "I" -> "i" [] c = "N" -> "n" [] c = "F" -> "f"
      [] c = "T" -> "t" [] c = "Y" -> "y" [] c = "A" -> "a"
      [] OTHER -> c

SpecialValues ==
    { <<"i", "n", "f">>,
      <<"i", "n", "f", "i", "n", "i", "t", "y">>,
      <<"n", "a", "n">> }

RECURSIVE DigitRun(_)
DigitRun(s) == IF s # <<>> /\ Head(s) \in Digit THEN 1 + DigitRun(Tail(s)) ELSE 0

Drop(s, n) == SubSeq(s, n + 1, Len(s))

StripSign(s) == IF s # <<>> /\ Head(s) \in {"+", "-"} THEN Tail(s) ELSE s

\* Exp ::= 'e' Sign? Digit+
is_exponent(s) ==
    /\ s # <<>>
    /\ Head(s) \in {"e", "E"}
    /\ LET d == StripSign(Tail(s))
       IN  d # <<>> /\ DigitRun(d) = Len(d)

\* Number ::= ( Digit+ | Digit+ '.' Digit* | Digit* '.' Digit+ ) Exp?
is_number(s) ==
    LET int_len == DigitRun(s)
        after_int == Drop(s, int_len)
        has_dot == after_int # <<>> /\ Head(after_int) = "."
        frac == IF has_dot THEN Tail(after_int) ELSE after_int
        frac_len == IF has_dot THEN DigitRun(frac) ELSE 0
        rest == Drop(frac, frac_len)
    IN  /\ int_len + frac_len >= 1
        /\ rest = <<>> \/ is_exponent(rest)

\* Float ::= Sign? ( 'inf' | 'infinity' | 'nan' | Number )
parse_f64_is_ok(s) ==
    LET body == StripSign(s)
        lower == [i \in 1..Len(body) |-> to_ascii_lowercase(body[i])]
    IN  lower \in SpecialValues \/ is_number(body)

-----------------------------------------------------------------------------
(* first_line_is_header *)

\* the zip loop: true at the first position where one cell is numeric and the
\* other is not
RECURSIVE ContrastScan(_, _, _)
ContrastScan(first_line, second_line, i) ==
    IF i > Len(first_line) \/ i > Len(second_line) THEN FALSE
    ELSE IF parse_f64_is_ok(first_line[i]) # parse_f64_is_ok(second_line[i]) THEN TRUE
    ELSE ContrastScan(first_line, second_line, i + 1)

header_like(header) ==
    \/ \A k \in 1..Len(header) :
           is_alphabetic(header[k]) \/ is_whitespace(header[k]) \/ header[k] = "_"
    \/ \A k \in 1..Len(header) : is_uppercase(header[k])

first_line_is_header_any_cell(ls) ==
    IF Len(ls) < 2 THEN FALSE
    ELSE IF Len(ls[1]) # Len(ls[2]) THEN FALSE
    ELSE IF ContrastScan(ls[1], ls[2], 1) THEN TRUE
    ELSE \E i \in 1..Len(ls[1]) : header_like(ls[1][i])

first_line_is_header(ls) ==
    IF Len(ls) < 2 THEN FALSE
    ELSE IF Len(ls[1]) # Len(ls[2]) THEN FALSE
    ELSE IF ContrastScan(ls[1], ls[2], 1) THEN TRUE
    ELSE \A i \in 1..Len(ls[1]) : header_like(ls[1][i])

MaxCells == 2      \* most cells of a row handed to first_line_is_header

HeaderCells ==
    { <<"3", "0">>,
      <<"i", "n", "f">>,
      <<>>,
      <<"A", "1">>,
      <<"a", "_", " ", "b">>,
      <<"-", ".", "5", "e", "1">> }

CellRows == SeqsUpTo(HeaderCells, MaxCells)

\* no row, one row, two rows, and two rows followed by a third
RowLists ==
    {<<>>}
    \cup {<<r>> : r \in CellRows}
    \cup {<<r[1], r[2]>> : r \in CellRows \X CellRows}
    \cup {<<r[1], r[2], <<<<"3", "0">>>> >> : r \in CellRows \X CellRows}

InitHeader ==
    /\ lines \in RowLists
    /\ guess = NoCall
    /\ data = <<>>
    /\ header_map = {}
    /\ built = NoCall
    /\ res = NoCall
    /\ text = <<>>
    /\ detected = "none"
    /\ parsed = NoCall

FirstLineIsHeader ==
    /\ guess = NoCall
    /\ guess' = [op |-> "first_line_is_header", ret |-> first_line_is_header(lines)]
    /\ UNCHANGED <<data, header_map, built, res, text, detected, parsed, lines>>

NextHeader == FirstLineIsHeader

SpecHeader == InitHeader /\ [][NextHeader]_vars

-----------------------------------------------------------------------------
(* Properties of the Table *)

Headered == built.op = "with_header_and_data" /\ built.ret.ok
HeaderLess == built.op \in {"new", "with_data"}

\* C1: after a successful with_header_and_data(header, data) and any add_row
\* calls, the header map is non-empty, has as many entries as the original
\* header has columns, and every stored row has exactly that length.
C1_HeaderedRowsMatchHeader ==
    Headered =>
        /\ header_map # {}
        /\ Cardinality(header_map) = Len(built.header)
        /\ \A r \in 1..Len(data) : Len(data[r]) = Len(built.header)

\* a headered table that took one row and then refused another
C1_Witness ==
    /\ Headered
    /\ Len(data) > Len(built.data)
    /\ res.op = "add_row"
    /\ ~res.ret.ok

DupPositions(header) ==
    {i \in 1..Len(header) : \E j \in 1..(i - 1) : header[j] = header[i]}
BadRows(header, d) == {r \in 1..Len(d) : Len(d[r]) # Len(header)}
Least(S) == CHOOSE x \in S : \A y \in S : x <= y

C3_AddRowFailsIffWidthDiffers ==
    res.op = "add_row" =>
        /\ Headered =>
               /\ res.ret.ok <=> Len(res.row) = Len(built.header)
               /\ ~res.ret.ok => res.ret.err.kind = "RowLengthMismatch"
        /\ HeaderLess => res.ret.ok

\* a headered table refusing a row shorter than its header
C3_Witness ==
    /\ Headered
    /\ res.op = "add_row"
    /\ Len(res.row) < Len(built.header)
    /\ ~res.ret.ok

\* a header-less table taking a row whose length differs from its first row's
C3_WitnessHeaderLess ==
    /\ built.op = "with_data"
    /\ res.op = "add_row"
    /\ res.ret.ok
    /\ Len(data) >= 2
    /\ Len(data[Len(data)]) # Len(data[1])

C4_Step ==
    LET t0 == MkTable(data, header_map)
        t1 == MkTable(data', header_map')
    IN  /\ (res'.op = "add_row" /\ res'.ret.ok) =>
               /\ row_count(t1) = row_count(t0) + 1
               /\ get(t1, row_count(t0)) = Some(res'.row)
               /\ \A i \in 0..(row_count(t0) - 1) : get(t1, i) = get(t0, i)
               /\ header_map' = header_map
        /\ (res'.op = "add_row" /\ ~res'.ret.ok) =>
               /\ row_count(t1) = row_count(t0)
               /\ data' = data
               /\ header_map' = header_map
        /\ res'.op \in {"get", "get_value", "row_count", "column_count"} =>
               /\ data' = data
               /\ header_map' = header_map

\* C4: the table is append-only: a successful add_row raises row_count by one,
\* makes get(old row_count) the new row and leaves every earlier row and the
\* header map as they were; a failing add_row, and get, get_value, row_count
\* and column_count, leave the rows and the header map as they were.
C4_AppendOnly == [][C4_Step]_vars

\* a successful add_row onto a table whose first row differs from the new one
C4_Witness ==
    /\ Exists
    /\ res.op = "add_row"
    /\ res.ret.ok
    /\ Len(data) >= 2
    /\ data[1] # data[Len(data)]

-----------------------------------------------------------------------------
(* Properties of detection and parsing *)

TextLines == str_lines(text)
NonBlank == trim(text) # <<>>
FieldCount(line) == Len(split(line, ","))

\* a line of '+' and '-' that begins and ends with '+'
IsBorderLine(l) ==
    /\ Len(l) >= 2
    /\ l[1] = "+"
    /\ l[Len(l)] = "+"
    /\ \A i \in 1..Len(l) : l[i] \in {"+", "-"}

\* a line that begins and ends with '|'
IsContentLine(l) == Len(l) >= 2 /\ l[1] = "|" /\ l[Len(l)] = "|"

\* border, content, border, ..., border: an odd number of lines, at least 3
IsBoxText ==
    /\ Len(TextLines) >= 3
    /\ Len(TextLines) % 2 = 1
    /\ \A i \in 1..Len(TextLines) :
           IF i % 2 = 1 THEN IsBorderLine(TextLines[i]) ELSE IsContentLine(TextLines[i])

\* C5: a text of an odd number of lines, at least 3, whose lines 0, 2, 4, ... are
\* border lines and whose lines 1, 3, 5, ... are content lines is detected as
\* AsciiTable.
C5_BoxTextIsAscii ==
    (detected # "none" /\ IsBoxText) => detected = "AsciiTable"

\* the cells of "| c1 | ... | cn |": what lies between the pipes, trimmed
ContentCells(l) ==
    LET pieces == split(l, "|")
    IN  TrimAll(SubSeq(pieces, 2, Len(pieces) - 1))

BoxRows == [k \in 1..((Len(TextLines) - 1) \div 2) |-> ContentCells(TextLines[2 * k])]

\* C6: parse_table(AsciiTable, text, true) on a box-drawn text whose content
\* lines hold n >= 1 cells each, pairwise distinct on the first one, succeeds
\* with the first content line's n cells as header and the other content
\* lines' cells, in order, as data rows; border lines contribute no row.
C6_AsciiParseYieldsCells ==
    ( /\ parsed.op = "parse_table"
      /\ parsed.table_type = "AsciiTable"
      /\ parsed.first_line_is_header
      /\ IsBoxText
      /\ \A k \in 1..Len(BoxRows) : Len(BoxRows[k]) = Len(BoxRows[1])
      /\ \A i, j \in 1..Len(BoxRows[1]) : BoxRows[1][i] = BoxRows[1][j] => i = j )
    => /\ ~parsed.out.panicked
       /\ parsed.out.ret.ok
       /\ parsed.out.ret.val.header_map =
              {<<BoxRows[1][i], i - 1>> : i \in 1..Len(BoxRows[1])}
       /\ parsed.out.ret.val.data = Tail(BoxRows)

IsShort == NonBlank /\ Len(TextLines) < 3

\* C7 as stated: a non-blank text of fewer than 3 lines is CsvTable if any of
\* its lines contains a comma and Unknown otherwise, never AsciiTable.
C7_ShortTextCommaOnAnyLine ==
    (detected # "none" /\ IsShort) =>
        detected = (IF \E i \in 1..Len(TextLines) : contains(TextLines[i], ",")
                    THEN "CsvTable" ELSE "Unknown")

\* C7 (amended): a non-blank text of fewer than 3 lines is CsvTable if its
\* first line contains a comma, whatever the field counts of its lines, and
\* Unknown otherwise, never AsciiTable.
C7_ShortTextCommaOnFirstLine ==
    (detected # "none" /\ IsShort) =>
        /\ detected = (IF contains(TextLines[1], ",") THEN "CsvTable" ELSE "Unknown")
        /\ detected # "AsciiTable"

\* two lines of different field counts, the comma on the first: CsvTable
C7_Witness ==
    /\ IsShort
    /\ Len(TextLines) = 2
    /\ contains(TextLines[1], ",")
    /\ FieldCount(TextLines[1]) # FieldCount(TextLines[2])
    /\ detected = "CsvTable"

\* two lines, the comma on the second only: Unknown
C7_WitnessSecondLine ==
    /\ IsShort
    /\ Len(TextLines) = 2
    /\ ~contains(TextLines[1], ",")
    /\ contains(TextLines[2], ",")
    /\ detected = "Unknown"

\* C8: parse_table(CsvTable, text, flag) returns a Table or a TableError for
\* every text and both flags, and never panics; with the flag set its only
\* failures are EmptyHeader, DuplicateColumn and RowLengthMismatch.
C8_CsvParseNeverPanics ==
    (parsed.op = "parse_table" /\ parsed.table_type = "CsvTable") =>
        /\ ~parsed.out.panicked
        /\ (parsed.first_line_is_header /\ ~parsed.out.ret.ok) =>
               parsed.out.ret.err.kind \in
                   {"EmptyHeader", "DuplicateColumn", "RowLengthMismatch"}

CsvParsed(flag) ==
    /\ parsed.op = "parse_table"
    /\ parsed.table_type = "CsvTable"
    /\ parsed.first_line_is_header = flag

C9_Consequences ==
    /\ \A i \in 1..Len(TextLines) : FieldCount(TextLines[i]) = FieldCount(TextLines[1])
    /\ FieldCount(TextLines[1]) > 1
    /\ CsvParsed(FALSE) =>
           /\ ~parsed.out.panicked
           /\ parsed.out.ret.ok
           /\ \A r \in 1..Len(parsed.out.ret.val.data) :
                  Len(parsed.out.ret.val.data[r]) = column_count(parsed.out.ret.val)
    /\ CsvParsed(TRUE) =>
           /\ ~parsed.out.panicked
           /\ ~parsed.out.ret.ok =>
                  parsed.out.ret.err.kind \notin {"RowLengthMismatch", "EmptyHeader"}

\* C9 as stated: in every text detected as CsvTable all lines split on ',' into
\* as many fields as the first, more than 1; so parsing it without header gives
\* rows of one length, column_count, and parsing it with header never fails
\* with RowLengthMismatch or EmptyHeader.
C9_CsvTextIsRectangular ==
    detected = "CsvTable" => C9_Consequences

\* C9 (amended): the same, for every text detected as CsvTable that does not
\* have exactly 2 lines.
C9_CsvTextOfNotTwoLinesIsRectangular ==
    (detected = "CsvTable" /\ Len(TextLines) # 2) => C9_Consequences

\* a text of 3 lines detected as CsvTable and parsed without header
C9_Witness ==
    /\ detected = "CsvTable"
    /\ Len(TextLines) >= 3
    /\ CsvParsed(FALSE)
    /\ parsed.out.ret.ok
    /\ Len(parsed.out.ret.val.data) = Len(TextLines)

-----------------------------------------------------------------------------
(* Properties of the header heuristic *)

Contrast(i) == parse_f64_is_ok(lines[1][i]) # parse_f64_is_ok(lines[2][i])

AllNumeric(row) == \A i \in 1..Len(row) : parse_f64_is_ok(row[i])

C10_Iff ==
    guess.ret <=>
        /\ Len(lines) >= 2
        /\ Len(lines[1]) = Len(lines[2])
        /\ \/ \E i \in 1..Len(lines[1]) : Contrast(i)
           \/ /\ \A i \in 1..Len(lines[1]) : ~Contrast(i)
              /\ \A i \in 1..Len(lines[1]) : header_like(lines[1][i])

\* C10 as stated: first_line_is_header is true iff there are at least 2 rows,
\* rows 0 and 1 have as many cells, and either one cell of a position is
\* numeric and the other not, or no position is so and every cell of row 0 is
\* alphabetic/whitespace/underscore only or uppercase only; rows whose cells
\* are all numeric in row 0 and in row 1 give false.
C10_HeaderGuess ==
    guess.op = "first_line_is_header" =>
        /\ C10_Iff
        /\ (Len(lines) >= 2 /\ AllNumeric(lines[1]) /\ AllNumeric(lines[2])) =>
               ~guess.ret

\* C10 (amended): the same, but rows whose cells are all numeric in row 0 and
\* in row 1 give false provided some cell of row 0 is not made of alphabetic,
\* whitespace or underscore characters only (a cell such as "inf" or "nan" is
\* numeric and alphabetic, and two empty rows have no cell at all).
C10_HeaderGuessAmended ==
    guess.op = "first_line_is_header" =>
        /\ C10_Iff
        /\ ( /\ Len(lines) >= 2
             /\ AllNumeric(lines[1])
             /\ AllNumeric(lines[2])
             /\ \E i \in 1..Len(lines[1]) : ~header_like(lines[1][i]) ) =>
               ~guess.ret

\* a contrast at position 1 only, behind a position without one
C10_Witness ==
    /\ guess.op = "first_line_is_header"
    /\ Len(lines) >= 2
    /\ Len(lines[1]) = 2
    /\ Len(lines[2]) = 2
    /\ ~Contrast(1)
    /\ Contrast(2)
    /\ ~header_like(lines[1][1])
    /\ guess.ret

====
